---- MODULE Spec2Model ----
(***************************************************************************)
(* TranslucentTB, src/TranslucentTB/main.cpp: the per-monitor taskbar      *)
(* state engine (SetTaskbarBlur, EnumWindowsProcess, SetWindowBlur), the   *)
(* taskbar registry (RefreshHandles), the peek-button toggle (TogglePeek), *)
(* the window blacklist with its hit-bounded cache (IsWindowBlacklisted)   *)
(* and the message loop of wWinMain with its registered callbacks.         *)
(***************************************************************************)
EXTENDS Integers, Sequences, FiniteSets, TLC

(***************************************************************************)
(* Bounds of the model.                                                    *)
(***************************************************************************)
\* Number of top-level application windows EnumWindows visits.
NumWindows == 2
\* Number of shell generations (explorer starts), each with fresh HWNDs.
MaxGen == 2
\* Longest queue of posted messages.
MaxQueue == 1
\* Config::CACHE_HIT_MAX, a configuration value (config.hpp is not in src/).
CACHE_HIT_MAX == 2

\* SetTaskbarBlur: "if (counter >= 10)", "static int counter = 10".
FullPassEvery == 10

(***************************************************************************)
(* Values.                                                                 *)
(***************************************************************************)
\* enum class TASKBARSTATE
TASKBARSTATE == {"Normal", "WindowMaximised", "StartMenuOpen"}

\* swca::ACCENT, the values main.cpp names or the tray binds
ACCENT_NORMAL == "ACCENT_NORMAL"
ACCENT_ENABLE_GRADIENT == "ACCENT_ENABLE_GRADIENT"
ACCENT_ENABLE_TRANSPARENTGRADIENT == "ACCENT_ENABLE_TRANSPARENTGRADIENT"
ACCENT_ENABLE_BLURBEHIND == "ACCENT_ENABLE_BLURBEHIND"
ACCENT_ENABLE_FLUENT == "ACCENT_ENABLE_FLUENT"
ACCENT == {ACCENT_NORMAL, ACCENT_ENABLE_GRADIENT, ACCENT_ENABLE_TRANSPARENTGRADIENT,
           ACCENT_ENABLE_BLURBEHIND, ACCENT_ENABLE_FLUENT}

\* Config::PEEK
PEEK == {"Enabled", "Dynamic", "Disabled"}

\* Tray::EXITREASON
EXITREASON == {"UserAction", "UserActionNoSave", "NewInstance"}

\* HMONITOR values; NoMon is the null HMONITOR.
Monitors == {"MonA", "MonB"}
NoMon == "NoMon"

\* HWND values of shell windows: the primary (Shell_TrayWnd) and secondary
\* (Shell_SecondaryTrayWnd) taskbar of each shell generation; Null is Window().
Null == [k |-> "Null", g |-> 0]
PrimaryOf(g) == [k |-> "Shell_TrayWnd", g |-> g]
SecondaryOf(g) == [k |-> "Shell_SecondaryTrayWnd", g |-> g]
Gens == 1..MaxGen
TaskbarHandles == {PrimaryOf(g) : g \in Gens} \cup {SecondaryOf(g) : g \in Gens}
Handles == TaskbarHandles \cup {Null}

\* HWND values of application windows, in the z-order EnumWindows visits.
Windows == 1..NumWindows

(***************************************************************************)
(* 32-bit colour arithmetic of SetWindowBlur.  A uint32_t is the tuple of  *)
(* its four bytes, most significant first: 0xAARRGGBB is <<AA, RR, GG, BB>>*)
(***************************************************************************)
U32(b3, b2, b1, b0) == <<b3, b2, b1, b0>>
Zero32 == U32(0, 0, 0, 0)

RECURSIVE AndBits(_, _, _)
AndBits(x, y, n) ==
    IF n = 0 THEN 0 ELSE (x % 2) * (y % 2) + 2 * AndBits(x \div 2, y \div 2, n - 1)

\* a & b
And32(a, b) == [i \in 1..4 |-> AndBits(a[i], b[i], 8)]
\* a >> 16, a >> 24, a << 16, a << 24
Shr16(a) == U32(0, 0, a[1], a[2])
Shr24(a) == U32(0, 0, 0, a[1])
Shl16(a) == U32(a[3], a[4], 0, 0)
Shl24(a) == U32(a[4], 0, 0, 0)
\* a + b, modulo 2^32
Add32(a, b) ==
    LET s0 == a[4] + b[4]
        s1 == a[3] + b[3] + s0 \div 256
        s2 == a[2] + b[2] + s1 \div 256
        s3 == a[1] + b[1] + s2 \div 256
    IN U32(s3 % 256, s2 % 256, s1 % 256, s0 % 256)

\* (color & 0xFF00FF00) + ((color & 0x00FF0000) >> 16) + ((color & 0x000000FF) << 16)
SwapRBWrong(color) == color
SwapRB(color) ==
    Add32(Add32(And32(color, U32(255, 0, 255, 0)),
                Shr16(And32(color, U32(0, 255, 0, 0)))),
          Shl16(And32(color, U32(0, 0, 0, 255))))

\* policy.nAccentState == swca::ACCENT_ENABLE_FLUENT && policy.nColor >> 24 == 0x00
FluentNeedsAlphaNever(state, nColor) == FALSE
FluentNeedsAlpha(state, nColor) ==
    state = "ACCENT_ENABLE_FLUENT" /\ Shr24(nColor) = Zero32

\* policy.nColor = (0x01 << 24) + (policy.nColor & 0x00FFFFFF)
PromoteAlphaClobber(nColor) == Shl24(U32(0, 0, 0, 1))
PromoteAlpha(nColor) ==
    Add32(Shl24(U32(0, 0, 0, 1)), And32(nColor, U32(0, 255, 255, 255)))

(***************************************************************************)
(* Strings: sequences of characters over a small alphabet.                 *)
(***************************************************************************)
\* Util::ToLower (util.hpp), applied by IsWindowBlacklisted to the exe name
LowerChar(c) == IF c = "A" THEN "a" ELSE IF c = "B" THEN "b" ELSE c
ToLower(s) == [i \in 1..Len(s) |-> LowerChar(s[i])]

\* std::wstring::find(value) != npos
Contains(title, value) ==
    \E i \in 0..(Len(title) - Len(value)) :
        \A j \in 1..Len(value) : title[i + j] = value[j]

(***************************************************************************)
(* State.                                                                  *)
(***************************************************************************)
VARIABLES
    \* Config:: values read by main.cpp
    cfg,
    \* static struct OPTIONS opt
    opt,
    \* static struct RUNTIMESTATE run
    exit_reason, main_taskbar, taskbars, should_show_peek, is_running,
    fluent_available, cache_hits, peek_active,
    \* function-local statics
    is_normal,          \* SetWindowBlur: unordered_map<HWND, bool>
    cached_peek,        \* TogglePeek
    cached_taskbar,     \* TogglePeek
    blacklist_cache,    \* IsWindowBlacklisted: unordered_map<HWND, bool>
    counter,            \* SetTaskbarBlur
    \* user32::SetWindowCompositionAttribute is non-null
    swca_available,
    \* position of the main thread, and the window EnumWindows visits next
    pc, ei,
    \* posted messages waiting in the thread's queue
    msgq,
    \* the desktop: application windows, the Start menu, the shell's taskbars
    wins, start, shell, deadMon, files,
    \* the detached threads of IDM_EDITSETTINGS and IDM_EDITDYNAMICBLACKLIST
    editors,
    \* what the program did to the shell (observations, never read by the program)
    fx, prev_applied, peekfx, blfx, pass

progVars == <<cfg, opt, exit_reason, main_taskbar, taskbars, should_show_peek, is_running,
              fluent_available, cache_hits, peek_active, is_normal, cached_peek,
              cached_taskbar, blacklist_cache, counter, swca_available, pc, ei, msgq>>
envVars == <<wins, start, shell, deadMon, files, editors>>
obsVars == <<fx, prev_applied, peekfx, blfx, pass>>
vars == <<progVars, envVars, obsVars>>

\* static Window cached_taskbar before the first call of TogglePeek initialises it
Uninit == [k |-> "Uninit", g |-> 0]

(***************************************************************************)
(* The desktop as the Window class (window.hpp) reports it.                *)
(***************************************************************************)
\* Window::classname(), title(), filename() of the application windows
WinClass(w) == IF w % 2 = 1 THEN <<"a">> ELSE <<"b">>
WinTitle(w) == IF w % 2 = 1 THEN <<"a", "b", "a">> ELSE <<"b", "b">>
WinFile(w) == IF w % 2 = 1 THEN <<"A", "b">> ELSE <<"b", "A">>

\* Window::Find(L"Shell_TrayWnd")
FindShellTrayWnd == shell.primary

\* the windows the FindEx(nullptr, prev, L"Shell_SecondaryTrayWnd") loop yields
SecondaryTrayWnds == IF shell.secondary = Null THEN {} ELSE {shell.secondary}

\* Window::monitor(): the monitor of a live taskbar; what the call gives for a
\* null or destroyed window is deadMon.
MonitorOf(h) ==
    IF h # Null /\ h = shell.primary THEN shell.pmon
    ELSE IF h # Null /\ h = shell.secondary THEN shell.smon
    ELSE deadMon

(***************************************************************************)
(* SetWindowBlur (lines 77-116), on s = [is_normal, fx].                   *)
(***************************************************************************)
Put(f, k, v) == (k :> v) @@ f
Count(f, k) == IF k \in DOMAIN f THEN f[k] ELSE 0

\* the ACCENTPOLICY initialiser of lines 83-88
PolicyOf(appearance, color) ==
    [nAccentState |-> appearance, nFlags |-> 2, nColor |-> SwapRB(color), nAnimationId |-> 0]

\* lines 101-105
FixFluent(policy) ==
    IF FluentNeedsAlpha(policy.nAccentState, policy.nColor)
    THEN [policy EXCEPT !.nColor = PromoteAlpha(@)]
    ELSE policy

\* line 92: is_normal.count(window) == 0 || !is_normal[window]
MustSendThemeChangedAlways(memo, window) == TRUE
MustSendThemeChanged(memo, window) ==
    window \notin DOMAIN memo \/ ~memo[window]

SetWindowBlur(s, window, appearance, color) ==
    LET r == [s EXCEPT !.fx.requested =
                  Put(@, window, [appearance |-> appearance, color |-> color])]
        policy == PolicyOf(appearance, color)
    IN  IF ~swca_available THEN r
        ELSE IF policy.nAccentState = ACCENT_NORMAL
        THEN IF MustSendThemeChanged(s.is_normal, window)
             THEN [r EXCEPT !.fx.nthemechanged = Put(@, window, Count(@, window) + 1),
                            !.fx.applied = Put(@, window, ACCENT_NORMAL),
                            !.is_normal = Put(@, window, TRUE)]
             ELSE r
        ELSE [r EXCEPT !.fx.swca = Put(@, window, FixFluent(policy)),
                       !.fx.nswca = Put(@, window, Count(@, window) + 1),
                       !.fx.applied = Put(@, window, policy.nAccentState),
                       !.is_normal = Put(@, window, FALSE)]

\* the empty map
Empty == [x \in {} |-> TRUE]
NoFx == [requested |-> Empty, swca |-> Empty, nswca |-> Empty,
         nthemechanged |-> Empty, applied |-> Empty]

(***************************************************************************)
(* RefreshHandles (lines 279-299).                                         *)
(***************************************************************************)
\* The right operand of the assignment of line 289 is sequenced before the
\* left one (C++17 [expr.ass]), so the key is the monitor of the window just
\* found.  Line 297 then stores each secondary taskbar under its monitor.
RECURSIVE InsertSecondaries(_, _)
InsertSecondaries(map, todo) ==
    IF todo = {} THEN map
    ELSE LET t == CHOOSE x \in todo : TRUE
         IN InsertSecondaries(Put(map, MonitorOf(t), [hwnd |-> t, state |-> "Normal"]),
                              todo \ {t})

RefreshedTaskbarsKeepOld(old) ==
    InsertSecondaries(Put(old, MonitorOf(FindShellTrayWnd),
                          [hwnd |-> FindShellTrayWnd, state |-> "Normal"]),
                      SecondaryTrayWnds)
RefreshedTaskbars(old) ==
    InsertSecondaries(Put(Empty, MonitorOf(FindShellTrayWnd),
                          [hwnd |-> FindShellTrayWnd, state |-> "Normal"]),
                      SecondaryTrayWnds)

RefreshHandles ==
    /\ main_taskbar' = FindShellTrayWnd
    /\ taskbars' = RefreshedTaskbars(taskbars)

(***************************************************************************)
(* TogglePeek (lines 301-323), on t = [cached_peek, cached_taskbar,        *)
(* peekfx].                                                                *)
(***************************************************************************)
\* line 306: status != cached_peek || cached_taskbar != run.main_taskbar
PeekChangedStatusOnly(status, cpeek, ctaskbar) == status # cpeek
PeekChanged(status, cpeek, ctaskbar) ==
    status # cpeek \/ ctaskbar # main_taskbar

TogglePeek(t, status) ==
    \* line 304: the static is initialised by the first call
    LET ctaskbar == IF t.cached_taskbar = Uninit THEN main_taskbar ELSE t.cached_taskbar
    IN  IF PeekChanged(status, t.cached_peek, ctaskbar)
        THEN [cached_peek |-> status,
              cached_taskbar |-> main_taskbar,
              peekfx |-> [nops |-> t.peekfx.nops + 1,
                          nudges |-> t.peekfx.nudges + 2,
                          shown |-> Put(t.peekfx.shown, main_taskbar, status),
                          last |-> [visible |-> status, hwnd |-> main_taskbar]]]
        ELSE [t EXCEPT !.cached_taskbar = ctaskbar,
                       \* the button as the first request found it
                       !.peekfx.last = IF @.hwnd = Uninit
                                       THEN [visible |-> TRUE, hwnd |-> main_taskbar]
                                       ELSE @]

(***************************************************************************)
(* ClearBlacklistCache (lines 325-328), IsWindowBlacklisted (344-408).     *)
(***************************************************************************)
ClearedHits == CACHE_HIT_MAX + 1

InSeq(x, seq) == \E i \in 1..Len(seq) : seq[i] = x

\* lines 366-375, 380-390, 393-404
ClassMatch(w) == InSeq(WinClass(w), opt.blacklisted_classes)
TitleMatch(w) == \E i \in 1..Len(opt.blacklisted_titles) :
                    Contains(WinTitle(w), opt.blacklisted_titles[i])
FileMatchNoLower(w) == InSeq(WinFile(w), opt.blacklisted_filenames)
FileMatch(w) == InSeq(ToLower(WinFile(w)), opt.blacklisted_filenames)

\* the rule sets looked at, in order, up to the first match
RulesEvaluated(w) ==
    LET c == IF Len(opt.blacklisted_classes) > 0 THEN <<"class">> ELSE <<>>
        t == IF Len(opt.blacklisted_titles) > 0 THEN <<"title">> ELSE <<>>
        f == IF Len(opt.blacklisted_filenames) > 0 THEN <<"exename">> ELSE <<>>
    IN  IF ClassMatch(w) THEN c
        ELSE IF TitleMatch(w) THEN c \o t
        ELSE c \o t \o f

MatchesRules(w) == ClassMatch(w) \/ TitleMatch(w) \/ FileMatch(w)

\* line 348: run.cache_hits <= Config::CACHE_HIT_MAX && blacklist_cache.count(window) > 0
ServeFromCacheAlways(hits, cache, window) == window \in DOMAIN cache
ServeFromCache(hits, cache, window) ==
    hits <= CACHE_HIT_MAX /\ window \in DOMAIN cache

\* line 355: run.cache_hits > Config::CACHE_HIT_MAX
MustClearCache(hits) == hits > CACHE_HIT_MAX

\* b = [cache_hits, blacklist_cache, blfx]; the result adds ret, the value returned
IsWindowBlacklisted(b, window) ==
    IF ServeFromCache(b.cache_hits, b.blacklist_cache, window)
    THEN [ret |-> b.blacklist_cache[window],
          cache_hits |-> b.cache_hits + 1,
          blacklist_cache |-> b.blacklist_cache,
          blfx |-> [served |-> b.blfx.served + 1,
                    fromCache |-> TRUE,
                    hitsBefore |-> b.cache_hits,
                    evaluated |-> <<>>]]
    ELSE LET clear == MustClearCache(b.cache_hits)
             cache == IF clear THEN Empty ELSE b.blacklist_cache
         IN [ret |-> MatchesRules(window),
             cache_hits |-> IF clear THEN 0 ELSE b.cache_hits,
             blacklist_cache |-> Put(cache, window, MatchesRules(window)),
             blfx |-> [served |-> IF clear THEN 0 ELSE b.blfx.served,
                       fromCache |-> FALSE,
                       hitsBefore |-> b.cache_hits,
                       evaluated |-> RulesEvaluated(window)]]

(***************************************************************************)
(* EnumWindowsProcess (lines 468-488).                                     *)
(***************************************************************************)
\* line 474, left of the blacklist test
BeforeBlacklistNoCloak(w) == wins[w].visible /\ wins[w].maximized
BeforeBlacklist(w) ==
    wins[w].visible /\ wins[w].maximized /\ ~wins[w].cloaked

\* line 474, right of the blacklist test
AfterBlacklistAlways(w) == TRUE
AfterBlacklist(w) == wins[w].on_current_desktop

\* line 482: Config::PEEK == Config::PEEK::Dynamic && taskbar.first == run.main_taskbar
PeekByTriggerAnyTaskbar(taskbar) == cfg.PEEK = "Dynamic"
PeekByTrigger(taskbar) == cfg.PEEK = "Dynamic" /\ taskbar.hwnd = main_taskbar

EnumWindowsProcess(w) ==
    LET called == BeforeBlacklist(w)
        b == IsWindowBlacklisted([cache_hits |-> cache_hits,
                                  blacklist_cache |-> blacklist_cache,
                                  blfx |-> blfx], w)
        trigger == called /\ ~b.ret /\ AfterBlacklist(w)
        mon == wins[w].monitor
    IN  /\ IF called
           THEN /\ cache_hits' = b.cache_hits
                /\ blacklist_cache' = b.blacklist_cache
                /\ blfx' = b.blfx
           ELSE UNCHANGED <<cache_hits, blacklist_cache, blfx>>
        /\ pass' = [pass EXCEPT
                      !.answers = IF called THEN Put(@, w, b.ret) ELSE @,
                      !.triggers = IF trigger THEN @ \cup {w} ELSE @]
        /\ IF trigger /\ mon \notin DOMAIN taskbars
           THEN \* run.taskbars.at() throws std::out_of_range; nothing catches it
                /\ pc' = "aborted"
                /\ UNCHANGED <<taskbars, should_show_peek, ei>>
           ELSE /\ taskbars' = IF trigger /\ cfg.DYNAMIC_WS
                               THEN [taskbars EXCEPT ![mon].state = "WindowMaximised"]
                               ELSE taskbars
                /\ should_show_peek' = IF trigger /\ PeekByTrigger(taskbars[mon])
                                       THEN TRUE ELSE should_show_peek
                /\ ei' = w + 1
                /\ pc' = IF w = NumWindows THEN "peek" ELSE "enum"

(***************************************************************************)
(* SetTaskbarBlur (lines 495-560), one action per stretch of the function. *)
(***************************************************************************)
ResetStates(map) == [m \in DOMAIN map |-> [map[m] EXCEPT !.state = "Normal"]]

\* line 499
IsFullPassEveryTick(c) == TRUE
IsFullPass(c) == c >= FullPassEvery

\* line 503
PeekAtPassStartAlways == TRUE
PeekAtPassStart == cfg.PEEK = "Enabled"

\* line 509
MustEnumerate == cfg.DYNAMIC_WS \/ cfg.PEEK = "Dynamic"

\* lines 499-513, up to the call of EnumWindows
BlurBegin ==
    /\ pc = "blur"
    /\ pass' = [full |-> IsFullPass(counter), answers |-> Empty, triggers |-> {},
                sinceFull |-> IF IsFullPass(counter) THEN 0 ELSE pass.sinceFull + 1]
    /\ IF IsFullPass(counter)
       THEN /\ should_show_peek' = PeekAtPassStart
            /\ taskbars' = ResetStates(taskbars)
            /\ IF MustEnumerate
               THEN /\ counter' = 0
                    /\ ei' = 1
                    /\ pc' = IF NumWindows >= 1 THEN "enum" ELSE "peek"
               ELSE /\ pc' = "peek"
                    /\ UNCHANGED <<counter, ei>>
       ELSE /\ pc' = "apply"
            /\ UNCHANGED <<should_show_peek, taskbars, counter, ei>>
    /\ UNCHANGED <<cfg, opt, exit_reason, main_taskbar, is_running, fluent_available,
                   cache_hits, peek_active, is_normal, cached_peek, cached_taskbar,
                   blacklist_cache, swca_available, msgq, envVars, fx, prev_applied,
                   peekfx, blfx>>

\* line 512: EnumWindows calls EnumWindowsProcess for each window in turn
EnumStep ==
    /\ pc = "enum"
    /\ ei \in Windows
    /\ EnumWindowsProcess(ei)
    /\ UNCHANGED <<cfg, opt, exit_reason, main_taskbar, is_running, fluent_available,
                   peek_active, is_normal, cached_peek, cached_taskbar, counter,
                   swca_available, msgq, envVars, fx, prev_applied, peekfx>>

\* line 515
PeekStep ==
    /\ pc = "peek"
    /\ LET t == TogglePeek([cached_peek |-> cached_peek,
                            cached_taskbar |-> cached_taskbar,
                            peekfx |-> peekfx], should_show_peek)
       IN /\ cached_peek' = t.cached_peek
          /\ cached_taskbar' = t.cached_taskbar
          /\ peekfx' = t.peekfx
    /\ pc' = "start"
    /\ UNCHANGED <<cfg, opt, exit_reason, main_taskbar, taskbars, should_show_peek,
                   is_running, fluent_available, cache_hits, peek_active, is_normal,
                   blacklist_cache, counter, swca_available, ei, msgq, envVars, fx,
                   prev_applied, blfx, pass>>

\* line 517: Config::DYNAMIC_START && Util::IsStartVisible()
StartOpenIgnoringConfig == start.visible
StartOpen == cfg.DYNAMIC_START /\ start.visible

\* line 533
PeekOverrideIgnoringConfig == peek_active
PeekOverride == cfg.DYNAMIC_WS /\ cfg.DYNAMIC_NORMAL_ON_PEEK /\ peek_active

\* lines 517-541
StartStep ==
    /\ pc = "start"
    /\ IF StartOpen /\ start.monitor \notin DOMAIN taskbars
       THEN \* run.taskbars.at() throws std::out_of_range; nothing catches it
            /\ pc' = "aborted"
            /\ UNCHANGED <<taskbars, counter>>
       ELSE /\ LET afterStart == IF StartOpen
                                 THEN [taskbars EXCEPT ![start.monitor].state = "StartMenuOpen"]
                                 ELSE taskbars
               IN taskbars' = IF PeekOverride THEN ResetStates(afterStart) ELSE afterStart
            /\ counter' = 0
            /\ pc' = "apply"
    /\ UNCHANGED <<cfg, opt, exit_reason, main_taskbar, should_show_peek, is_running,
                   fluent_available, cache_hits, peek_active, is_normal, cached_peek,
                   cached_taskbar, blacklist_cache, swca_available, ei, msgq, envVars,
                   fx, prev_applied, peekfx, blfx, pass>>

\* lines 546-557: the accent each TASKBARSTATE asks for
AccentForSwapped(state) ==
    IF state = "StartMenuOpen" THEN [appearance |-> ACCENT_NORMAL, color |-> Zero32]
    ELSE IF state = "WindowMaximised"
    THEN [appearance |-> cfg.TASKBAR_APPEARANCE, color |-> cfg.TASKBAR_COLOR]
    ELSE [appearance |-> cfg.DYNAMIC_APPEARANCE, color |-> cfg.DYNAMIC_COLOR]
AccentFor(state) ==
    IF state = "StartMenuOpen" THEN [appearance |-> ACCENT_NORMAL, color |-> Zero32]
    ELSE IF state = "WindowMaximised"
    THEN [appearance |-> cfg.DYNAMIC_APPEARANCE, color |-> cfg.DYNAMIC_COLOR]
    ELSE [appearance |-> cfg.TASKBAR_APPEARANCE, color |-> cfg.TASKBAR_COLOR]

\* the loop of lines 544-558 over the entries not yet visited
RECURSIVE ApplyAll(_, _)
ApplyAll(s, todo) ==
    IF todo = {} THEN s
    ELSE LET m == CHOOSE x \in todo : TRUE
             a == AccentFor(taskbars[m].state)
         IN ApplyAll(SetWindowBlur(s, taskbars[m].hwnd, a.appearance, a.color), todo \ {m})

\* lines 544-559
ApplyStep ==
    /\ pc = "apply"
    /\ LET s == ApplyAll([is_normal |-> is_normal, fx |-> fx], DOMAIN taskbars)
       IN /\ is_normal' = s.is_normal
          /\ fx' = s.fx
    /\ counter' = counter + 1
    /\ pc' = "sleep"
    /\ UNCHANGED <<cfg, opt, exit_reason, main_taskbar, taskbars, should_show_peek,
                   is_running, fluent_available, cache_hits, peek_active, cached_peek,
                   cached_taskbar, blacklist_cache, swca_available, ei, msgq, envVars,
                   prev_applied, peekfx, blfx, pass>>

(***************************************************************************)
(* The callbacks InitializeTray registers (lines 647-756) and              *)
(* HandleAeroPeekEvent (lines 490-493).                                    *)
(***************************************************************************)
Messages == {"NEW_TTB_INSTANCE", "WM_DISPLAYCHANGE", "WM_TASKBARCREATED", "WM_CLOSE",
             "IDM_EXITWITHOUTSAVING", "IDM_EXIT", "IDM_CLEARBLACKLISTCACHE",
             "IDM_RELOADSETTINGS", "IDM_RELOADDYNAMICBLACKLIST",
             "IDM_EDITSETTINGS", "IDM_EDITDYNAMICBLACKLIST",
             "IDM_RETURNTODEFAULTSETTINGS", "IDM_RETURNTODEFAULTBLACKLIST"}

\* what the callbacks write
cbVars == <<exit_reason, is_running, main_taskbar, taskbars, cache_hits, opt, cfg, files,
            editors>>

\* lines 325-328
ClearBlacklistCacheToZero == cache_hits' = 0
ClearBlacklistCache == cache_hits' = ClearedHits

\* no detached thread is running
NoEditors == [settings |-> "none", blacklist |-> "none"]

\* ApplyStock: the files shipped with the program
StockConfig == [TASKBAR_APPEARANCE |-> ACCENT_ENABLE_BLURBEHIND, TASKBAR_COLOR |-> Zero32,
                DYNAMIC_WS |-> FALSE, DYNAMIC_APPEARANCE |-> ACCENT_ENABLE_BLURBEHIND,
                DYNAMIC_COLOR |-> Zero32, DYNAMIC_START |-> FALSE, PEEK |-> "Enabled",
                DYNAMIC_NORMAL_ON_PEEK |-> FALSE]
StockExclude == [blacklisted_classes |-> <<>>, blacklisted_filenames |-> <<>>,
                 blacklisted_titles |-> <<>>]

Callback(m) ==
    CASE m = "NEW_TTB_INSTANCE" ->              \* lines 647-651
            /\ exit_reason' = "NewInstance"
            /\ is_running' = FALSE
            /\ UNCHANGED <<main_taskbar, taskbars, cache_hits, opt, cfg, files, editors>>
      [] m \in {"WM_DISPLAYCHANGE", "WM_TASKBARCREATED"} ->   \* lines 653-661
            /\ RefreshHandles
            /\ UNCHANGED <<exit_reason, is_running, cache_hits, opt, cfg, files, editors>>
      [] m \in {"WM_CLOSE", "IDM_EXIT"} ->        \* lines 663-667, 698-701
            /\ exit_reason' = "UserAction"
            /\ is_running' = FALSE
            /\ UNCHANGED <<main_taskbar, taskbars, cache_hits, opt, cfg, files, editors>>
      [] m = "IDM_EXITWITHOUTSAVING" ->           \* lines 693-696
            /\ exit_reason' = "UserActionNoSave"
            /\ is_running' = FALSE
            /\ UNCHANGED <<main_taskbar, taskbars, cache_hits, opt, cfg, files, editors>>
      [] m = "IDM_CLEARBLACKLISTCACHE" ->         \* lines 718-720
            /\ ClearBlacklistCache
            /\ UNCHANGED <<exit_reason, is_running, main_taskbar, taskbars, opt, cfg, files,
                           editors>>
      [] m = "IDM_RELOADSETTINGS" ->              \* lines 722-724
            /\ cfg' = files.config
            /\ UNCHANGED <<exit_reason, is_running, main_taskbar, taskbars, cache_hits, opt,
                           files, editors>>
      [] m = "IDM_EDITSETTINGS" ->                \* lines 726-732
            /\ files' = [files EXCEPT !.config = cfg]
            /\ editors' = [editors EXCEPT !.settings = "editing"]
            /\ UNCHANGED <<exit_reason, is_running, main_taskbar, taskbars, cache_hits, opt,
                           cfg>>
      [] m = "IDM_RETURNTODEFAULTSETTINGS" ->     \* lines 734-737
            /\ files' = [files EXCEPT !.config = StockConfig]
            /\ cfg' = StockConfig
            /\ UNCHANGED <<exit_reason, is_running, main_taskbar, taskbars, cache_hits, opt,
                           editors>>
      [] m = "IDM_RELOADDYNAMICBLACKLIST" ->      \* lines 739-742
            /\ opt' = files.exclude
            /\ ClearBlacklistCache
            /\ UNCHANGED <<exit_reason, is_running, main_taskbar, taskbars, cfg, files,
                           editors>>
      [] m = "IDM_EDITDYNAMICBLACKLIST" ->        \* lines 744-750
            /\ editors' = [editors EXCEPT !.blacklist = "editing"]
            /\ UNCHANGED <<exit_reason, is_running, main_taskbar, taskbars, cache_hits, opt,
                           cfg, files>>
      [] m = "IDM_RETURNTODEFAULTBLACKLIST" ->    \* lines 752-756
            /\ files' = [files EXCEPT !.exclude = StockExclude]
            /\ opt' = StockExclude
            /\ ClearBlacklistCache
            /\ UNCHANGED <<exit_reason, is_running, main_taskbar, taskbars, cfg, editors>>

\* run.peek_active = event == 0x21
HandleAeroPeekEvent(event) == peek_active' = (event = 33)

(***************************************************************************)
(* wWinMain: the message loop (lines 810-820) and what follows it.         *)
(***************************************************************************)
\* line 810
LoopTest ==
    /\ pc = "loop"
    /\ pc' = IF is_running THEN "pump" ELSE "exit"
    /\ fx' = [fx EXCEPT !.requested = Empty, !.swca = Empty, !.nswca = Empty,
                        !.nthemechanged = Empty]
    /\ prev_applied' = fx.applied
    /\ peekfx' = [peekfx EXCEPT !.nops = 0, !.nudges = 0]
    /\ UNCHANGED <<cfg, opt, exit_reason, main_taskbar, taskbars, should_show_peek,
                   is_running, fluent_available, cache_hits, peek_active, is_normal,
                   cached_peek, cached_taskbar, blacklist_cache, counter, swca_available,
                   ei, msgq, envVars, blfx, pass>>

\* A message sent to the thread is handled inside PeekMessage.
SentMessage(m) ==
    /\ pc = "pump"
    /\ Callback(m)
    /\ UNCHANGED <<should_show_peek, fluent_available, peek_active, is_normal, cached_peek,
                   cached_taskbar, blacklist_cache, counter, swca_available, pc, ei, msgq,
                   wins, start, shell, deadMon, obsVars>>

\* The out-of-context event hook is called from the thread's message retrieval.
\* run.peek_active is read by the full pass alone (line 533), so the events of
\* the ticks between are the ones delivered before the next full pass.
PeekEvent(event) ==
    /\ pc = "pump"
    /\ IsFullPass(counter)
    /\ HandleAeroPeekEvent(event)
    /\ peek_active' # peek_active
    /\ UNCHANGED <<cfg, opt, exit_reason, main_taskbar, taskbars, should_show_peek,
                   is_running, fluent_available, cache_hits, is_normal, cached_peek,
                   cached_taskbar, blacklist_cache, counter, swca_available, pc, ei, msgq,
                   envVars, obsVars>>

\* lines 812-817: PeekMessage(..., PM_NOREMOVE) leaves the message in the queue
PumpMessages ==
    /\ pc = "pump"
    /\ IF msgq # <<>> THEN Callback(Head(msgq)) ELSE UNCHANGED cbVars
    /\ pc' = "blur"
    /\ UNCHANGED <<should_show_peek, fluent_available, peek_active, is_normal, cached_peek,
                   cached_taskbar, blacklist_cache, counter, swca_available, ei, msgq,
                   wins, start, shell, deadMon, obsVars>>

\* line 819
Sleep ==
    /\ pc = "sleep"
    /\ pc' = "loop"
    /\ UNCHANGED <<cfg, opt, exit_reason, main_taskbar, taskbars, should_show_peek,
                   is_running, fluent_available, cache_hits, peek_active, is_normal,
                   cached_peek, cached_taskbar, blacklist_cache, counter, swca_available,
                   ei, msgq, envVars, obsVars>>

\* line 823
MustRestoreAlways == TRUE
MustRestore == exit_reason # "NewInstance"

RECURSIVE RestoreAll(_, _)
RestoreAll(s, todo) ==
    IF todo = {} THEN s
    ELSE LET m == CHOOSE x \in todo : TRUE
         IN RestoreAll(SetWindowBlur(s, taskbars[m].hwnd, ACCENT_NORMAL, Zero32), todo \ {m})

\* lines 822-838
Exit ==
    /\ pc = "exit"
    /\ IF MustRestore
       THEN /\ files' = IF exit_reason # "UserActionNoSave"
                        THEN [files EXCEPT !.config = cfg] ELSE files
            /\ LET t == TogglePeek([cached_peek |-> cached_peek,
                                    cached_taskbar |-> cached_taskbar,
                                    peekfx |-> peekfx], TRUE)
               IN /\ cached_peek' = t.cached_peek
                  /\ cached_taskbar' = t.cached_taskbar
                  /\ peekfx' = t.peekfx
            /\ LET s == RestoreAll([is_normal |-> is_normal, fx |-> fx], DOMAIN taskbars)
               IN /\ is_normal' = s.is_normal
                  /\ fx' = s.fx
       ELSE UNCHANGED <<files, cached_peek, cached_taskbar, peekfx, is_normal, fx>>
    /\ pc' = "terminated"
    /\ UNCHANGED <<cfg, opt, exit_reason, main_taskbar, taskbars, should_show_peek,
                   is_running, fluent_available, cache_hits, peek_active, blacklist_cache,
                   counter, swca_available, ei, msgq, wins, start, shell, deadMon, editors,
                   prev_applied, blfx, pass>>

\* one iteration of the loop, and the end of the program
MainThread ==
    \/ LoopTest
    \/ PumpMessages
    \/ BlurBegin
    \/ EnumStep
    \/ PeekStep
    \/ StartStep
    \/ ApplyStep
    \/ Sleep
    \/ Exit

(***************************************************************************)
(* The desktop changes while the thread sleeps.                            *)
(***************************************************************************)
\* Windows, the Start menu and run.peek_active are read by the full pass
\* alone, so their changes during the ticks between are the ones made before
\* the next full pass.
ChangeWindow(w, st) ==
    /\ pc = "sleep"
    /\ IsFullPass(counter)
    /\ wins[w] # st
    /\ wins' = [wins EXCEPT ![w] = st]
    /\ UNCHANGED <<progVars, start, shell, deadMon, files, editors, obsVars>>

ChangeStart(st) ==
    /\ pc = "sleep"
    /\ IsFullPass(counter)
    /\ start # st
    /\ start' = st
    /\ UNCHANGED <<progVars, wins, shell, deadMon, files, editors, obsVars>>

\* The shell moves, creates or destroys its taskbars; a new generation has
\* new window handles.
ChangeShell(sh) ==
    /\ pc = "sleep"
    /\ shell # sh
    /\ sh.gen \in {shell.gen, shell.gen + 1}
    /\ shell' = sh
    /\ UNCHANGED <<progVars, wins, start, deadMon, files, editors, obsVars>>

\* a message is posted to the thread's queue
Post(m) ==
    /\ pc = "sleep"
    /\ Len(msgq) < MaxQueue
    /\ msgq' = Append(msgq, m)
    /\ UNCHANGED <<cfg, opt, exit_reason, main_taskbar, taskbars, should_show_peek,
                   is_running, fluent_available, cache_hits, peek_active, is_normal,
                   cached_peek, cached_taskbar, blacklist_cache, counter, swca_available,
                   pc, ei, envVars, obsVars>>

(***************************************************************************)
(* The detached threads (lines 726-732, 744-750) and the files they read.  *)
(* One editor per file is followed at a time.                              *)
(***************************************************************************)
\* the process is alive
Alive == pc \notin {"terminated", "aborted"}

\* the user saves the configuration file, or the exclude file
EditConfigFile(c) ==
    /\ pc = "sleep"
    /\ files.config # c
    /\ files' = [files EXCEPT !.config = c]
    /\ UNCHANGED <<progVars, wins, start, shell, deadMon, editors, obsVars>>

EditExcludeFile(o) ==
    /\ pc = "sleep"
    /\ files.exclude # o
    /\ files' = [files EXCEPT !.exclude = o]
    /\ UNCHANGED <<progVars, wins, start, shell, deadMon, editors, obsVars>>

\* line 730: Util::EditFile has returned; Config::Parse(run.config_file)
SettingsThreadParse ==
    /\ Alive
    /\ editors.settings = "editing"
    /\ cfg' = files.config
    /\ editors' = [editors EXCEPT !.settings = "none"]
    /\ UNCHANGED <<opt, exit_reason, main_taskbar, taskbars, should_show_peek, is_running,
                   fluent_available, cache_hits, peek_active, is_normal, cached_peek,
                   cached_taskbar, blacklist_cache, counter, swca_available, pc, ei, msgq,
                   wins, start, shell, deadMon, files, obsVars>>

\* line 747, lines 222-224: Util::EditFile has returned; ParseBlacklistFile
\* clears the three vectors
BlacklistThreadClear ==
    /\ Alive
    /\ editors.blacklist = "editing"
    /\ opt' = [blacklisted_classes |-> <<>>, blacklisted_filenames |-> <<>>,
               blacklisted_titles |-> <<>>]
    /\ editors' = [editors EXCEPT !.blacklist = "filling"]
    /\ UNCHANGED <<cfg, exit_reason, main_taskbar, taskbars, should_show_peek, is_running,
                   fluent_available, cache_hits, peek_active, is_normal, cached_peek,
                   cached_taskbar, blacklist_cache, counter, swca_available, pc, ei, msgq,
                   wins, start, shell, deadMon, files, obsVars>>

\* lines 231-272: ParseBlacklistFile fills the vectors from the file
BlacklistThreadFill ==
    /\ Alive
    /\ editors.blacklist = "filling"
    /\ opt' = files.exclude
    /\ editors' = [editors EXCEPT !.blacklist = "clearing"]
    /\ UNCHANGED <<cfg, exit_reason, main_taskbar, taskbars, should_show_peek, is_running,
                   fluent_available, cache_hits, peek_active, is_normal, cached_peek,
                   cached_taskbar, blacklist_cache, counter, swca_available, pc, ei, msgq,
                   wins, start, shell, deadMon, files, obsVars>>

\* line 748: ClearBlacklistCache()
BlacklistThreadClearCache ==
    /\ Alive
    /\ editors.blacklist = "clearing"
    /\ ClearBlacklistCache
    /\ editors' = [editors EXCEPT !.blacklist = "none"]
    /\ UNCHANGED <<cfg, opt, exit_reason, main_taskbar, taskbars, should_show_peek,
                   is_running, fluent_available, peek_active, is_normal, cached_peek,
                   cached_taskbar, blacklist_cache, counter, swca_available, pc, ei, msgq,
                   wins, start, shell, deadMon, files, obsVars>>

(***************************************************************************)
(* Values the inputs are drawn from.                                       *)
(***************************************************************************)
Other(m) == IF m = "MonA" THEN "MonB" ELSE "MonA"

\* a maximised, visible, uncloaked window of the current desktop on monitor m
Maximised(m) == [visible |-> TRUE, maximized |-> TRUE, cloaked |-> FALSE,
                 on_current_desktop |-> TRUE, monitor |-> m]
Restored == [Maximised("MonA") EXCEPT !.maximized = FALSE]
Hidden == [Maximised("MonA") EXCEPT !.visible = FALSE]
Cloaked == [Maximised("MonA") EXCEPT !.cloaked = TRUE]
OtherDesktop == [Maximised("MonA") EXCEPT !.on_current_desktop = FALSE]
WinStates == {Maximised(m) : m \in Monitors} \cup {Restored, Hidden, Cloaked, OtherDesktop}
WinStatesFew == {Maximised(m) : m \in Monitors} \cup {Restored}

StartStates == {[visible |-> FALSE, monitor |-> "MonA"]}
                 \cup {[visible |-> TRUE, monitor |-> m] : m \in Monitors}

\* the shell of generation g: no taskbar at all (explorer is not running), or
\* a primary taskbar on pmon and, with sec, a secondary one on the other monitor
ShellLayout(g, alive, pmon, sec) ==
    [gen |-> g,
     primary |-> IF alive THEN PrimaryOf(g) ELSE Null,
     pmon |-> pmon,
     secondary |-> IF alive /\ sec THEN SecondaryOf(g) ELSE Null,
     smon |-> Other(pmon)]
ShellLayouts ==
    {ShellLayout(g, TRUE, m, sec) : g \in Gens, m \in Monitors, sec \in BOOLEAN}
        \cup {ShellLayout(g, FALSE, "MonA", FALSE) : g \in Gens}

\* 0x00000000, 0x00112233, 0x01000000, 0x80000000, 0xFF102030, 0x00FF00FF
Colors == {U32(0, 0, 0, 0), U32(0, 17, 34, 51), U32(1, 0, 0, 0), U32(128, 0, 0, 0),
           U32(255, 16, 32, 48), U32(0, 255, 0, 255)}

Cfg(ta, tc, ws, da, dc, st, pk, np) ==
    [TASKBAR_APPEARANCE |-> ta, TASKBAR_COLOR |-> tc, DYNAMIC_WS |-> ws,
     DYNAMIC_APPEARANCE |-> da, DYNAMIC_COLOR |-> dc, DYNAMIC_START |-> st,
     PEEK |-> pk, DYNAMIC_NORMAL_ON_PEEK |-> np]

\* the rule sets ParseBlacklistFile leaves in opt (file names lower-cased, line 266)
Rules(c, f, t) == [blacklisted_classes |-> c, blacklisted_filenames |-> f,
                   blacklisted_titles |-> t]
NoRules == Rules(<<>>, <<>>, <<>>)
RuleSets == {NoRules,
             Rules(<< <<"b">> >>, <<>>, <<>>),
             Rules(<<>>, <<>>, << <<"b", "a">> >>),
             Rules(<<>>, << <<"a", "b">> >>, <<>>)}

(***************************************************************************)
(* The state when wWinMain reaches its loop (lines 793-807).               *)
(***************************************************************************)
InitWith(Cfgs, Opts, Shells, WinFns, Starts, DeadMons, Fluent, Swca) ==
    /\ cfg \in Cfgs
    /\ opt \in Opts
    /\ files = [config |-> cfg, exclude |-> opt]
    /\ shell \in Shells
    /\ deadMon \in DeadMons
    /\ editors = NoEditors
    /\ wins \in WinFns
    /\ start \in Starts
    /\ fluent_available \in Fluent
    /\ swca_available \in Swca
    /\ exit_reason = "UserAction"
    /\ is_running = TRUE
    /\ should_show_peek = FALSE
    /\ cache_hits = 0
    /\ peek_active = FALSE
    \* line 803: RefreshHandles()
    /\ main_taskbar = FindShellTrayWnd
    /\ taskbars = RefreshedTaskbars(Empty)
    /\ is_normal = Empty
    /\ cached_peek = TRUE
    /\ cached_taskbar = Uninit
    /\ blacklist_cache = Empty
    /\ counter = 10
    /\ pc = "loop"
    /\ ei = 1
    /\ msgq = <<>>
    /\ fx = NoFx
    /\ prev_applied = Empty
    /\ peekfx = [nops |-> 0, nudges |-> 0, shown |-> Empty,
                 last |-> [visible |-> TRUE, hwnd |-> Uninit]]
    /\ blfx = [served |-> 0, fromCache |-> FALSE, hitsBefore |-> 0, evaluated |-> <<>>]
    /\ pass = [full |-> FALSE, answers |-> Empty, triggers |-> {}, sinceFull |-> -1]

(***************************************************************************)
(* Spec: the classifier on a desktop with two monitors.  The appearances   *)
(* are fixed and different, the peek button is left alone, and the         *)
(* switches of the Start menu and of Aero Peek are drawn.                  *)
(***************************************************************************)
\* the loop while no shutdown is requested
Loop ==
    \/ LoopTest
    \/ PumpMessages
    \/ BlurBegin
    \/ EnumStep
    \/ PeekStep
    \/ StartStep
    \/ ApplyStep
    \/ Sleep

\* Blur with 0x80000000 when normal, Clear with 0x00112233 when dynamic
EngineCfgs ==
    {Cfg(ACCENT_ENABLE_BLURBEHIND, U32(128, 0, 0, 0), ws, ACCENT_ENABLE_TRANSPARENTGRADIENT,
         U32(0, 17, 34, 51), st, "Disabled", np) :
        ws \in BOOLEAN, st \in BOOLEAN, np \in BOOLEAN}

\* a taskbar on each monitor, or one on MonB alone
EngineShells == {ShellLayout(1, TRUE, "MonA", TRUE), ShellLayout(1, TRUE, "MonB", FALSE)}

Init ==
    InitWith(EngineCfgs, {NoRules}, EngineShells, [Windows -> WinStatesFew], StartStates,
             {NoMon}, {TRUE}, {TRUE})

Next ==
    \/ Loop
    \/ \E w \in Windows, st \in WinStatesFew : ChangeWindow(w, st)
    \/ \E st \in StartStates : ChangeStart(st)
    \/ \E e \in {33, 34} : PeekEvent(e)

Spec == Init /\ [][Next]_vars

(***************************************************************************)
(* Claims checked under Spec.                                              *)
(***************************************************************************)
\* the applier has run in this tick and nothing has changed since
Applied == pc = "sleep"
\* a full pass has classified every taskbar and the applier has not yet run
Classified == pc = "apply" /\ pass.full

\* C1: on every tick, for every taskbar of the registry, the accent the
\* applier asks for is decided by the taskbar's state alone: StartMenuOpen
\* asks for (Normal, 0), WindowMaximised for the dynamic appearance and
\* colour, Normal for the taskbar appearance and colour.
C1_AccentByState ==
    Applied =>
        \A m \in DOMAIN taskbars :
            LET h == taskbars[m].hwnd
                st == taskbars[m].state
            IN /\ h \in DOMAIN fx.requested
               /\ st = "StartMenuOpen" =>
                     fx.requested[h] = [appearance |-> "ACCENT_NORMAL", color |-> <<0, 0, 0, 0>>]
               /\ st = "WindowMaximised" =>
                     fx.requested[h] = [appearance |-> cfg.DYNAMIC_APPEARANCE,
                                        color |-> cfg.DYNAMIC_COLOR]
               /\ st = "Normal" =>
                     fx.requested[h] = [appearance |-> cfg.TASKBAR_APPEARANCE,
                                        color |-> cfg.TASKBAR_COLOR]

\* all three states are asked for in one applier pass or another
C1_Witness ==
    /\ Applied
    /\ \E m, n \in DOMAIN taskbars :
          /\ taskbars[m].state = "WindowMaximised"
          /\ taskbars[n].state = "StartMenuOpen"
          /\ fx.requested[taskbars[m].hwnd].appearance = "ACCENT_ENABLE_TRANSPARENTGRADIENT"
          /\ fx.requested[taskbars[n].hwnd].appearance = "ACCENT_NORMAL"

\* C3: after a full pass with DYNAMIC_START and the Start menu visible on a
\* monitor with a taskbar, and the peek override not in force, that taskbar is
\* in StartMenuOpen, also when a trigger window of the same pass set it to
\* WindowMaximised; the applier then gives every StartMenuOpen taskbar the
\* Normal accent.
C3_StartOverridesMaximised ==
    /\ ( /\ Classified
         /\ cfg.DYNAMIC_START /\ start.visible
         /\ ~(cfg.DYNAMIC_WS /\ cfg.DYNAMIC_NORMAL_ON_PEEK /\ peek_active)
         /\ start.monitor \in DOMAIN taskbars )
       => taskbars[start.monitor].state = "StartMenuOpen"
    /\ Applied =>
          \A m \in DOMAIN taskbars :
              taskbars[m].state = "StartMenuOpen" =>
                  /\ fx.applied[taskbars[m].hwnd] = "ACCENT_NORMAL"
                  /\ taskbars[m].hwnd \notin DOMAIN fx.swca

\* a trigger window of this pass lies on the monitor of the visible Start menu
C3_Witness ==
    /\ Classified
    /\ cfg.DYNAMIC_START /\ start.visible /\ cfg.DYNAMIC_WS
    /\ ~(cfg.DYNAMIC_NORMAL_ON_PEEK /\ peek_active)
    /\ start.monitor \in DOMAIN taskbars
    /\ taskbars[start.monitor].state = "StartMenuOpen"
    /\ \E w \in pass.triggers : wins[w].monitor = start.monitor

\* C4: after a full pass with DYNAMIC_WS, DYNAMIC_NORMAL_ON_PEEK and
\* peek_active, every taskbar a trigger window set to WindowMaximised is in
\* Normal, but the taskbar of the monitor of the visible Start menu (with
\* DYNAMIC_START) is still in StartMenuOpen.
C4_StartOutranksPeekReset ==
    ( /\ Classified
      /\ cfg.DYNAMIC_WS /\ cfg.DYNAMIC_NORMAL_ON_PEEK /\ peek_active )
    => \A m \in DOMAIN taskbars :
          IF cfg.DYNAMIC_START /\ start.visible /\ start.monitor = m
          THEN taskbars[m].state = "StartMenuOpen"
          ELSE taskbars[m].state = "Normal"

(***************************************************************************)
(* SpecPeek: the window enumeration.  Window 1 is in any of the states     *)
(* that pass or fail one test of EnumWindowsProcess, window 2 is           *)
(* blacklisted by its class, DYNAMIC_WS and the peek mode are drawn.       *)
(***************************************************************************)
PeekCfgs ==
    {Cfg(ACCENT_ENABLE_BLURBEHIND, U32(128, 0, 0, 0), ws, ACCENT_ENABLE_TRANSPARENTGRADIENT,
         U32(0, 17, 34, 51), FALSE, pk, FALSE) :
        ws \in BOOLEAN, pk \in PEEK}

\* a taskbar on each monitor, one on MonB alone, or none (explorer not running)
PeekShells == EngineShells \cup {ShellLayout(1, FALSE, "MonA", FALSE)}

\* window 1 is in any state; the others are maximised on a monitor, or restored
PeekWinStates(w) == IF w = 1 THEN WinStates ELSE WinStatesFew
PeekWins == {f \in [Windows -> WinStates] : \A w \in Windows : f[w] \in PeekWinStates(w)}

InitPeek ==
    InitWith(PeekCfgs, {Rules(<< <<"b">> >>, <<>>, <<>>)}, PeekShells, PeekWins,
             {[visible |-> FALSE, monitor |-> "MonA"]}, {"MonA"}, {TRUE}, {TRUE})

NextPeek ==
    \/ Loop
    \/ \E w \in Windows : \E st \in PeekWinStates(w) : ChangeWindow(w, st)

SpecPeek == InitPeek /\ [][NextPeek]_vars

\* what makes a window a dynamic trigger: the four window tests of line 474,
\* and the answer IsWindowBlacklisted gave for it in this pass
Visible5(w) ==
    /\ wins[w].visible /\ wins[w].maximized /\ ~wins[w].cloaked
    /\ wins[w].on_current_desktop
    /\ w \in DOMAIN pass.answers /\ ~pass.answers[w]

\* C6: a window is treated as a dynamic trigger only if it is visible,
\* maximised, not cloaked, not blacklisted and on the current desktop; after a
\* full pass a taskbar is in WindowMaximised only if DYNAMIC_WS is set and a
\* window of that pass on the taskbar's monitor met all five conditions.
C6_TriggerConditions ==
    /\ \A w \in pass.triggers : Visible5(w)
    /\ Classified =>
          \A m \in DOMAIN taskbars :
              taskbars[m].state = "WindowMaximised" =>
                  /\ cfg.DYNAMIC_WS
                  /\ \E w \in Windows : Visible5(w) /\ wins[w].monitor = m

\* a trigger made one taskbar WindowMaximised while a cloaked window, a window
\* of another desktop or a blacklisted one left the other taskbar Normal
C6_Witness ==
    /\ Classified
    /\ \E m, n \in DOMAIN taskbars :
          /\ taskbars[m].state = "WindowMaximised"
          /\ taskbars[n].state = "Normal"
          /\ \E w \in Windows :
                /\ wins[w].monitor = n /\ wins[w].visible /\ wins[w].maximized
                /\ (wins[w].cloaked \/ ~wins[w].on_current_desktop
                    \/ (w \in DOMAIN pass.answers /\ pass.answers[w]))

\* C7: after a full pass should_show_peek is true exactly when the peek mode
\* is Enabled, or it is Dynamic and a trigger window lies on the monitor of
\* the primary taskbar; triggers on other monitors do not count.
C7_PeekDecision ==
    Classified =>
        ( should_show_peek <=>
            \/ cfg.PEEK = "Enabled"
            \/ /\ cfg.PEEK = "Dynamic"
               /\ \E w \in Windows :
                     Visible5(w) /\ wins[w].monitor = MonitorOf(main_taskbar) )

\* Dynamic mode, a trigger on the secondary taskbar's monitor and none on the
\* primary one: the peek button is not to be shown
C7_Witness ==
    /\ Classified
    /\ cfg.PEEK = "Dynamic"
    /\ ~should_show_peek
    /\ \E w \in pass.triggers :
          /\ wins[w].monitor # MonitorOf(main_taskbar)
          /\ wins[w].monitor \in DOMAIN taskbars


(***************************************************************************)
(* SpecAccent: the accent submission.  The taskbar appearance and colour   *)
(* are drawn from every accent kind and from colours with and without a    *)
(* zero alpha byte, on hosts with and without Fluent support and with and  *)
(* without the accent entry point.  A taskbar on each monitor; window 1    *)
(* is maximised and restored, the Start menu opens and closes.             *)
(***************************************************************************)
\* the dynamic accent: Normal, or Fluent with 0x00FF00FF
AccentCfgs ==
    {Cfg(ta, tc, TRUE, d[1], d[2], TRUE, "Disabled", FALSE) :
        ta \in ACCENT, tc \in Colors,
        d \in {<<ACCENT_NORMAL, U32(0, 0, 0, 0)>>, <<ACCENT_ENABLE_FLUENT, U32(0, 255, 0, 255)>>}}

AccentWinStates == {Maximised("MonA"), Restored}

InitAccent ==
    InitWith(AccentCfgs, {NoRules}, {ShellLayout(1, TRUE, "MonA", TRUE)},
             [Windows -> {Restored}], {[visible |-> FALSE, monitor |-> "MonA"]},
             {NoMon}, BOOLEAN, BOOLEAN)

NextAccent ==
    \/ Loop
    \/ \E st \in AccentWinStates : ChangeWindow(1, st)
    \/ \E st \in StartStates : ChangeStart(st)

SpecAccent == InitAccent /\ [][NextAccent]_vars

\* C2: when the host has the accent entry point and no Fluent support, a
\* taskbar for which Fluent is asked is submitted Blur with the same colour,
\* and no taskbar is submitted Fluent.
C2_FluentDemotedToBlur ==
    (Applied /\ swca_available /\ ~fluent_available) =>
        \A h \in DOMAIN fx.requested :
            /\ fx.requested[h].appearance = "ACCENT_ENABLE_FLUENT" =>
                  /\ h \in DOMAIN fx.swca
                  /\ fx.swca[h].nAccentState = "ACCENT_ENABLE_BLURBEHIND"
                  /\ fx.swca[h].nColor = <<fx.requested[h].color[1], fx.requested[h].color[4],
                                           fx.requested[h].color[3], fx.requested[h].color[2]>>
            /\ h \in DOMAIN fx.swca => fx.swca[h].nAccentState # "ACCENT_ENABLE_FLUENT"

\* what was applied to taskbar h before this tick was not Normal (nothing
\* applied to it yet is not Normal)
WasNotNormal(h) == h \notin DOMAIN prev_applied \/ prev_applied[h] # "ACCENT_NORMAL"

\* the theme-reset and submission counts of this tick, for every taskbar
ResetOnEdgeOnly ==
    \A m \in DOMAIN taskbars :
        LET h == taskbars[m].hwnd
        IN  IF fx.requested[h].appearance = "ACCENT_NORMAL"
            THEN /\ Count(fx.nthemechanged, h) = (IF WasNotNormal(h) THEN 1 ELSE 0)
                 /\ Count(fx.nswca, h) = 0
            ELSE /\ Count(fx.nswca, h) = 1
                 /\ Count(fx.nthemechanged, h) = 0

\* C5 (as amended): on a host that has the accent entry point, in every tick
\* and for every taskbar, a theme-reset is sent exactly when Normal is asked
\* for and what was applied to the taskbar before was not Normal, and then
\* nothing is submitted; when a kind other than Normal is asked for, exactly
\* one accent is submitted and no theme-reset is sent.
C5_ResetOnEdgeOnly ==
    (Applied /\ swca_available) => ResetOnEdgeOnly

\* a taskbar goes from a submitted accent to Normal and gets its reset, while
\* the other one stays Normal and gets none
C5_Witness ==
    /\ Applied /\ swca_available
    /\ \E m, n \in DOMAIN taskbars :
          LET h == taskbars[m].hwnd
              k == taskbars[n].hwnd
          IN /\ h \in DOMAIN prev_applied /\ prev_applied[h] = "ACCENT_ENABLE_FLUENT"
             /\ fx.requested[h].appearance = "ACCENT_NORMAL"
             /\ Count(fx.nthemechanged, h) = 1
             /\ k \in DOMAIN prev_applied /\ prev_applied[k] = "ACCENT_NORMAL"
             /\ fx.requested[k].appearance = "ACCENT_NORMAL"
             /\ Count(fx.nthemechanged, k) = 0

\* C5 (as claimed): in every tick and for every taskbar, whatever the host,
\* the theme-reset is sent exactly on the edge to Normal and a kind other than
\* Normal is submitted exactly once.
C5_ResetOnEdgeOnlyAnyHost ==
    Applied => ResetOnEdgeOnly

\* C10: a Fluent accent is never submitted with alpha byte 0; when Fluent is
\* asked for with alpha 0 the submitted alpha is 1 and the three other bytes
\* are those of the colour with red and blue exchanged; for every other kind
\* and alpha the submitted alpha is the configured one.
C10_FluentAlphaPromoted ==
    Applied =>
        \A h \in DOMAIN fx.swca :
            LET req == fx.requested[h]
                sub == fx.swca[h]
            IN /\ sub.nAccentState = "ACCENT_ENABLE_FLUENT" => sub.nColor[1] # 0
               /\ <<sub.nColor[2], sub.nColor[3], sub.nColor[4]>>
                     = <<req.color[4], req.color[3], req.color[2]>>
               /\ sub.nColor[1] = IF req.appearance = "ACCENT_ENABLE_FLUENT" /\ req.color[1] = 0
                                  THEN 1 ELSE req.color[1]

\* Fluent with 0x00112233 is submitted as 0x01332211, and Blur with alpha 0
\* keeps it
C10_Witness ==
    /\ Applied
    /\ \E h \in DOMAIN fx.swca :
          /\ fx.requested[h] = [appearance |-> "ACCENT_ENABLE_FLUENT", color |-> <<0, 17, 34, 51>>]
          /\ fx.swca[h].nColor = <<1, 51, 34, 17>>
    /\ \E h \in DOMAIN fx.swca :
          /\ fx.requested[h].appearance = "ACCENT_ENABLE_FLUENT"
          /\ fx.requested[h].color = <<0, 255, 0, 255>>


(***************************************************************************)
(* SpecCache: the blacklist cache.  Every window is maximised or restored, *)
(* so a full pass asks IsWindowBlacklisted about each maximised window;    *)
(* the tray's "clear blacklist cache" entry is chosen at any tick.         *)
(***************************************************************************)
CacheCfgs ==
    {Cfg(ACCENT_ENABLE_BLURBEHIND, U32(128, 0, 0, 0), TRUE, ACCENT_ENABLE_TRANSPARENTGRADIENT,
         U32(0, 17, 34, 51), FALSE, "Disabled", FALSE)}

CacheWinStates == {Maximised("MonA"), Restored}

InitCache ==
    InitWith(CacheCfgs, RuleSets, {ShellLayout(1, TRUE, "MonA", TRUE)},
             [Windows -> CacheWinStates], {[visible |-> FALSE, monitor |-> "MonA"]},
             {NoMon}, {TRUE}, {TRUE})

NextCache ==
    \/ Loop
    \/ \E w \in Windows, st \in CacheWinStates : ChangeWindow(w, st)
    \/ SentMessage("IDM_CLEARBLACKLISTCACHE")

SpecCache == InitCache /\ [][NextCache]_vars

\* the hit counter is at most CACHE_HIT_MAX + 1, and an answer asked for while
\* it was above CACHE_HIT_MAX was computed after a full clear of the cache
ClearBeforeNextAnswer ==
    /\ cache_hits <= CACHE_HIT_MAX + 1
    /\ blfx.hitsBefore > CACHE_HIT_MAX => (~blfx.fromCache /\ blfx.served = 0)

\* C8 (as amended): the hit counter exceeds CACHE_HIT_MAX by one at most, and
\* then the cache is fully cleared before the next answer is returned; at most
\* CACHE_HIT_MAX + 1 cached answers are served between two consecutive full
\* clears.
C8_CacheHitBound ==
    /\ ClearBeforeNextAnswer
    /\ blfx.served <= CACHE_HIT_MAX + 1

\* the last cached answer of a run of CACHE_HIT_MAX + 1 has just been served
C8_Witness ==
    /\ blfx.fromCache
    /\ blfx.served = CACHE_HIT_MAX + 1
    /\ blfx.hitsBefore = CACHE_HIT_MAX
    /\ cache_hits = CACHE_HIT_MAX + 1

\* C8 (as claimed): the hit counter is above CACHE_HIT_MAX only until the
\* clear that precedes the next answer, and no more than CACHE_HIT_MAX cached
\* answers are served between two consecutive full clears.
C8_AtMostMaxCachedAnswers ==
    /\ ClearBeforeNextAnswer
    /\ blfx.served <= CACHE_HIT_MAX


(***************************************************************************)
(* SpecRegistry: the taskbar registry.  The shell starts in any layout,    *)
(* explorer not running included, and moves, creates and destroys its      *)
(* taskbars while the thread sleeps; WM_DISPLAYCHANGE and                  *)
(* WM_TASKBARCREATED reach the message window at any tick.  No window is   *)
(* maximised.                                                              *)
(***************************************************************************)
InitRegistry ==
    InitWith(CacheCfgs, {NoRules}, ShellLayouts, [Windows -> {Restored}],
             {[visible |-> FALSE, monitor |-> "MonA"]}, {NoMon, "MonA"}, {TRUE}, {TRUE})

NextRegistry ==
    \/ Loop
    \/ \E sh \in ShellLayouts : ChangeShell(sh)
    \/ SentMessage("WM_DISPLAYCHANGE")
    \/ SentMessage("WM_TASKBARCREATED")

SpecRegistry == InitRegistry /\ [][NextRegistry]_vars

\* the monitors that host a taskbar of the shell, and the taskbar of each
HostingMonitors ==
    {m \in Monitors : \/ shell.primary # Null /\ shell.pmon = m
                      \/ shell.secondary # Null /\ shell.smon = m}
TaskbarOn(m) == IF shell.primary # Null /\ shell.pmon = m THEN shell.primary ELSE shell.secondary

\* the registry has one entry for each monitor that hosts a taskbar, with that
\* taskbar and the state Normal, and run.main_taskbar is the primary taskbar
\* and the handle of an entry
RegistryMatchesShell ==
    /\ DOMAIN taskbars = HostingMonitors
    /\ \A m \in DOMAIN taskbars :
          taskbars[m] = [hwnd |-> TaskbarOn(m), state |-> "Normal"]
    /\ main_taskbar = shell.primary
    /\ \E m \in DOMAIN taskbars : taskbars[m].hwnd = main_taskbar

\* C9: at startup, and after every rebuild made for a display change or a
\* shell restart, the registry holds exactly one entry for each monitor that
\* hosts a discovered taskbar and none from before, every entry is Normal, and
\* the entry of the primary taskbar's monitor holds run.main_taskbar.
C9_RegistryAfterRebuild ==
    /\ (pc = "loop" /\ fx = NoFx) => RegistryMatchesShell
    /\ [][ ( /\ pc = "pump" /\ pc' = "pump"
             /\ <<main_taskbar, taskbars>>' # <<main_taskbar, taskbars>> )
           => RegistryMatchesShell' ]_vars


(***************************************************************************)
(* SpecFluent: one monitor with the primary taskbar; the dynamic accent is *)
(* Fluent with 0x00112233, the taskbar accent Blur.  DYNAMIC_WS, the       *)
(* blacklist and Fluent support are drawn, window 1 is in any state.       *)
(***************************************************************************)
FluentCfgs ==
    {Cfg(ACCENT_ENABLE_BLURBEHIND, U32(128, 0, 0, 0), ws, ACCENT_ENABLE_FLUENT,
         U32(0, 17, 34, 51), FALSE, "Disabled", FALSE) : ws \in BOOLEAN}

InitFluent ==
    InitWith(FluentCfgs, RuleSets, {ShellLayout(1, TRUE, "MonA", FALSE)},
             {f \in [Windows -> {Maximised("MonA"), Restored, Hidden, Cloaked, OtherDesktop}] :
                 \A w \in Windows : w # 1 => f[w] \in {Maximised("MonA"), Restored}},
             {[visible |-> FALSE, monitor |-> "MonA"]}, {NoMon}, BOOLEAN, {TRUE})

NextFluent ==
    \/ Loop
    \/ \E w \in Windows : \E st \in PeekWinStates(w) \ {Maximised("MonB")} : ChangeWindow(w, st)

SpecFluent == InitFluent /\ [][NextFluent]_vars

\* a full pass of this tick found exactly one trigger window, with DYNAMIC_WS
\* on, the dynamic accent Fluent with 0x00112233 and Fluent support
OneTriggerFluent ==
    /\ Applied /\ pass.full
    /\ cfg.DYNAMIC_WS /\ fluent_available
    /\ cfg.DYNAMIC_APPEARANCE = "ACCENT_ENABLE_FLUENT"
    /\ cfg.DYNAMIC_COLOR = <<0, 17, 34, 51>>
    /\ Cardinality(pass.triggers) = 1

\* C11 (as amended): in that tick the taskbar is submitted Fluent with
\* 0x01332211: red and blue exchanged and the alpha byte 0 promoted to 1.
C11_FluentSubmission ==
    OneTriggerFluent =>
        /\ main_taskbar \in DOMAIN fx.swca
        /\ fx.swca[main_taskbar] = [nAccentState |-> "ACCENT_ENABLE_FLUENT", nFlags |-> 2,
                                    nColor |-> <<1, 51, 34, 17>>, nAnimationId |-> 0]

\* the one trigger is window 1 while window 2 is maximised and blacklisted
C11_Witness ==
    /\ OneTriggerFluent
    /\ pass.triggers = {1}
    /\ 2 \in DOMAIN pass.answers /\ pass.answers[2]
    /\ fx.swca[main_taskbar].nColor = <<1, 51, 34, 17>>

\* C11 (as claimed): in that tick the taskbar is submitted Fluent with
\* 0x00332211, the alpha byte 0x00 kept.
C11_FluentSubmissionAlphaZero ==
    OneTriggerFluent =>
        /\ main_taskbar \in DOMAIN fx.swca
        /\ fx.swca[main_taskbar] = [nAccentState |-> "ACCENT_ENABLE_FLUENT", nFlags |-> 2,
                                    nColor |-> <<0, 51, 34, 17>>, nAnimationId |-> 0]


(***************************************************************************)
(* SpecExit: the end of the loop.  The peek mode and the accent entry      *)
(* point are drawn; window 1 is maximised and restored, Aero Peek starts   *)
(* and stops, explorer restarts with new handles, and any of the messages  *)
(* that stop the loop reaches the message window at any tick.              *)
(***************************************************************************)
ExitCfgs ==
    {Cfg(ACCENT_ENABLE_BLURBEHIND, U32(128, 0, 0, 0), TRUE, ACCENT_NORMAL,
         U32(0, 0, 0, 0), FALSE, pk, TRUE) : pk \in PEEK}

\* the primary taskbar of each generation on MonA, alone
ExitShells == {ShellLayout(g, TRUE, "MonA", FALSE) : g \in Gens}

ExitMessages == {"NEW_TTB_INSTANCE", "WM_CLOSE", "IDM_EXITWITHOUTSAVING", "IDM_EXIT"}

InitExit ==
    InitWith(ExitCfgs, {NoRules}, {ShellLayout(1, TRUE, "MonA", FALSE)},
             [Windows -> {Restored}], {[visible |-> FALSE, monitor |-> "MonA"]},
             {"MonA"}, {TRUE}, BOOLEAN)

NextExit ==
    \/ MainThread
    \/ \E st \in AccentWinStates : ChangeWindow(1, st)
    \/ \E e \in {33, 34} : PeekEvent(e)
    \/ \E sh \in ExitShells : ChangeShell(sh)
    \/ \E m \in ExitMessages \cup {"WM_TASKBARCREATED"} : SentMessage(m)

SpecExit == InitExit /\ [][NextExit]_vars

\* what was last done to every taskbar of the registry is the theme reset of
\* ACCENT_NORMAL, and the peek button was last asked to be shown
LeftInDefaultState ==
    /\ \A m \in DOMAIN taskbars :
          LET h == taskbars[m].hwnd
          IN /\ swca_available => h \in DOMAIN fx.applied
             /\ h \in DOMAIN fx.applied => fx.applied[h] = "ACCENT_NORMAL"
    /\ cached_peek
    /\ main_taskbar \in DOMAIN peekfx.shown => peekfx.shown[main_taskbar]

\* C12: once the loop has stopped, with an exit reason other than NewInstance
\* the program ends with every taskbar of the registry last given the Normal
\* accent and the peek button last asked to be shown; with NewInstance the
\* step that ends the program toggles no peek button, submits no accent and
\* sends no theme reset.
C12_RestoreUnlessNewInstance ==
    /\ []((pc = "terminated" /\ exit_reason # "NewInstance") => LeftInDefaultState)
    /\ [][(pc = "exit" /\ exit_reason = "NewInstance") => (fx' = fx /\ peekfx' = peekfx)]_vars

\* the program ends by a user's exit while a taskbar has the dynamic accent
\* and the peek button is hidden: both are restored
C12_Witness ==
    /\ pc = "terminated" /\ exit_reason = "UserActionNoSave"
    /\ peekfx.nops = 1 /\ peekfx.shown[main_taskbar]
    /\ \E m \in DOMAIN taskbars :
          /\ taskbars[m].hwnd \in DOMAIN prev_applied
          /\ prev_applied[taskbars[m].hwnd] = "ACCENT_ENABLE_BLURBEHIND"
          /\ fx.applied[taskbars[m].hwnd] = "ACCENT_NORMAL"


\* C13: no tick aborts the loop, also with a trigger window or a visible
\* Start menu on a monitor without a registry entry; the loop ends only after
\* a shutdown request has cleared run.is_running.
C13_NoTickAborts ==
    /\ pc # "aborted"
    /\ pc \in {"exit", "terminated"} => ~is_running


(***************************************************************************)
(* SpecRebuild: explorer restarts, with new handles, with its one taskbar  *)
(* on either monitor; WM_TASKBARCREATED and WM_DISPLAYCHANGE reach the     *)
(* message window at any tick; window 1 is maximised and restored.  At     *)
(* startup the taskbar is on MonA and no window is maximised.              *)
(***************************************************************************)
RebuildShells == {ShellLayout(g, TRUE, m, FALSE) : g \in Gens, m \in Monitors}

InitRebuild ==
    InitWith(CacheCfgs, {NoRules}, {ShellLayout(1, TRUE, "MonA", FALSE)},
             [Windows -> {Restored}], {[visible |-> FALSE, monitor |-> "MonA"]},
             {NoMon}, {TRUE}, {TRUE})

NextRebuild ==
    \/ Loop
    \/ \E st \in AccentWinStates : ChangeWindow(1, st)
    \/ \E sh \in RebuildShells : ChangeShell(sh)
    \/ SentMessage("WM_TASKBARCREATED")
    \/ SentMessage("WM_DISPLAYCHANGE")

SpecRebuild == InitRebuild /\ [][NextRebuild]_vars

\* C14: the loop iteration that dispatched a shell-restart or display-change
\* event does not end, whether by reaching its sleep or otherwise, before the
\* applier has given an accent or a theme reset to every taskbar handle of
\* the rebuilt registry.
C14_ReappliedWithinTheTick ==
    (pc \in {"sleep", "aborted"} /\ swca_available) =>
        \A m \in DOMAIN taskbars : taskbars[m].hwnd \in DOMAIN fx.applied


(***************************************************************************)
(* SpecReload: the user saves either file while the thread sleeps, and the *)
(* tray's reload and return-to-default entries are chosen at any tick;     *)
(* every window is maximised or restored.                                  *)
(***************************************************************************)
ReloadCfgs == CacheCfgs \cup {StockConfig}

ReloadMessages == {"IDM_RELOADSETTINGS", "IDM_RETURNTODEFAULTSETTINGS",
                   "IDM_RELOADDYNAMICBLACKLIST", "IDM_RETURNTODEFAULTBLACKLIST"}

InitReload ==
    InitWith(CacheCfgs, {NoRules, Rules(<< <<"b">> >>, <<>>, <<>>)},
             {ShellLayout(1, TRUE, "MonA", TRUE)}, [Windows -> CacheWinStates],
             {[visible |-> FALSE, monitor |-> "MonA"]}, {NoMon}, {TRUE}, {TRUE})

NextReload ==
    \/ Loop
    \/ \E w \in Windows, st \in CacheWinStates : ChangeWindow(w, st)
    \/ \E c \in ReloadCfgs : EditConfigFile(c)
    \/ \E o \in {NoRules, Rules(<< <<"b">> >>, <<>>, <<>>)} : EditExcludeFile(o)
    \/ \E m \in ReloadMessages : SentMessage(m)

SpecReload == InitReload /\ [][NextReload]_vars

\* C15: a reload of the configuration or of the blacklist leaves no cached
\* answer that the next IsWindowBlacklisted call could return: the cache is
\* empty, or the hit counter is above CACHE_HIT_MAX so that the next call
\* clears the cache and evaluates the rule sets now in force.
C15_ReloadInvalidatesCache ==
    [][(<<cfg, opt>>' # <<cfg, opt>>) =>
          (blacklist_cache' = Empty \/ cache_hits' > CACHE_HIT_MAX)]_vars


(***************************************************************************)
(* SpecWorkers: the tray's two edit entries are chosen at any tick; each   *)
(* starts a detached thread that waits for the editor and then parses the  *)
(* file, at any moment of the loop thread.  The user saves either file     *)
(* while the loop thread sleeps; every window is maximised.                *)
(***************************************************************************)
InitWorkers ==
    InitWith(CacheCfgs, {Rules(<< <<"b">> >>, <<>>, <<>>)},
             {ShellLayout(1, TRUE, "MonA", TRUE)}, [Windows -> {Maximised("MonA")}],
             {[visible |-> FALSE, monitor |-> "MonA"]}, {NoMon}, {TRUE}, {TRUE})

NextWorkers ==
    \/ Loop
    \/ \E c \in ReloadCfgs : EditConfigFile(c)
    \/ \E o \in {NoRules, Rules(<< <<"b">> >>, <<>>, <<>>)} : EditExcludeFile(o)
    \/ editors.settings = "none" /\ SentMessage("IDM_EDITSETTINGS")
    \/ editors.blacklist = "none" /\ SentMessage("IDM_EDITDYNAMICBLACKLIST")
    \/ SettingsThreadParse
    \/ BlacklistThreadClear
    \/ BlacklistThreadFill
    \/ BlacklistThreadClearCache

SpecWorkers == InitWorkers /\ [][NextWorkers]_vars

\* the core state: the registry, the rule sets, the blacklist cache and its
\* hit counter, the configuration, peek_active
CoreState == <<taskbars, main_taskbar, opt, blacklist_cache, cache_hits, cfg, peek_active>>

\* a step of a detached thread that is past its start
WorkerStep ==
    \E k \in {"settings", "blacklist"} : editors[k] # "none" /\ editors'[k] # editors[k]

\* the loop thread is inside the classifier or the applier
InPass == pc \in {"enum", "peek", "start", "apply"}

\* C16: no step of a detached thread changes the core state, and while the
\* loop thread is inside a classifier or applier pass neither the rule sets,
\* the configuration and peek_active nor the taskbar handles of the registry
\* change.
C16_CoreStateOnLoopThreadOnly ==
    [][ /\ WorkerStep => UNCHANGED CoreState
        /\ InPass => /\ UNCHANGED <<opt, cfg, peek_active, main_taskbar>>
                     /\ DOMAIN taskbars' = DOMAIN taskbars
                     /\ \A m \in DOMAIN taskbars : taskbars'[m].hwnd = taskbars[m].hwnd ]_vars


(***************************************************************************)
(* More claims checked under Spec.                                         *)
(***************************************************************************)
\* C17: the first tick makes a full pass and after it exactly every tenth
\* tick does (nine ticks without one lie between two); a tick without a full
\* pass goes from the start of SetTaskbarBlur to the applier without
\* enumerating a window, and from its start to its sleep it changes no
\* taskbar's state, not should_show_peek, and toggles no peek button.
C17_FullPassEveryTenthTick ==
    [][ /\ pc = "blur" => (pass'.full <=> pass.sinceFull \in {-1, 9})
        /\ (pc = "blur" /\ ~pass'.full) => pc' = "apply"
        /\ (pc \in {"blur", "apply"} /\ ~pass'.full) =>
              /\ pc' \in {"apply", "sleep"}
              /\ UNCHANGED <<taskbars, should_show_peek, cached_peek, cached_taskbar,
                             peekfx, blfx, blacklist_cache, cache_hits>> ]_vars

\* the ninth tick after a full pass is at its applier, with a taskbar whose
\* state the full pass set
C17_Witness ==
    /\ pc = "apply" /\ ~pass.full /\ pass.sinceFull = 9
    /\ \E m \in DOMAIN taskbars : taskbars[m].state = "WindowMaximised"


(***************************************************************************)
(* More claims checked under SpecPeek.                                     *)
(***************************************************************************)
\* C18: in every tick the peek button is shown or hidden after the Start
\* menu step of the classification and after the accents of the tick are
\* submitted: while the tick has not passed its applier, it has issued no
\* peek-button operation.
C18_PeekAfterApplier ==
    pc \in {"enum", "peek", "start", "apply"} => peekfx.nops = 0


(***************************************************************************)
(* More claims checked under SpecExit.                                     *)
(***************************************************************************)
\* a request for the peek button is being made: by the full pass, or by the
\* restore at the end of the program
PeekRequested == pc = "peek" \/ (pc = "exit" /\ MustRestore)
PeekDesired == IF pc = "peek" THEN should_show_peek ELSE TRUE

\* the last operation issued; before any, the button as the first request
\* finds it: visible, on the primary taskbar of that request
PeekReference ==
    IF peekfx.last.hwnd = Uninit THEN [visible |-> TRUE, hwnd |-> main_taskbar]
    ELSE peekfx.last

\* C19: a request shows or hides the peek button, with two nudges of the
\* overflow button, exactly when the desired visibility differs from that of
\* the last operation issued or the primary taskbar is not the one of the last
\* operation issued; otherwise it issues nothing.
C19_PeekIssuedOnChangeOnly ==
    [][ PeekRequested =>
          IF PeekDesired # PeekReference.visible \/ main_taskbar # PeekReference.hwnd
          THEN /\ peekfx'.nops = peekfx.nops + 1
               /\ peekfx'.nudges = peekfx.nudges + 2
               /\ peekfx'.shown[main_taskbar] = PeekDesired
          ELSE /\ peekfx'.nops = peekfx.nops
               /\ peekfx'.nudges = peekfx.nudges
               /\ peekfx'.shown = peekfx.shown ]_vars

\* with the peek button always hidden, explorer has restarted and the hide is
\* issued again on the new primary taskbar
C19_Witness ==
    /\ cfg.PEEK = "Disabled"
    /\ pc = "start" /\ peekfx.nops = 1
    /\ main_taskbar = PrimaryOf(2)
    /\ PrimaryOf(1) \in DOMAIN peekfx.shown
    /\ peekfx.shown[main_taskbar] = FALSE


(***************************************************************************)
(* SpecMatch: the blacklist matcher.  The rule sets are drawn from sets    *)
(* with one kind of rule and with all three; every window is maximised or  *)
(* restored, and the tray's "clear blacklist cache" entry is chosen at any *)
(* tick.                                                                   *)
(***************************************************************************)
MatchRuleSets ==
    RuleSets \cup {Rules(<< <<"b">> >>, << <<"b", "a">> >>, << <<"b", "a">> >>),
                   Rules(<< <<"b">> >>, << <<"a", "b">> >>, << <<"b", "b", "b">> >>)}

InitMatch ==
    InitWith(CacheCfgs, MatchRuleSets, {ShellLayout(1, TRUE, "MonA", TRUE)},
             [Windows -> CacheWinStates], {[visible |-> FALSE, monitor |-> "MonA"]},
             {NoMon}, {TRUE}, {TRUE})

NextMatch ==
    \/ Loop
    \/ \E w \in Windows, st \in CacheWinStates : ChangeWindow(w, st)
    \/ SentMessage("IDM_CLEARBLACKLISTCACHE")

SpecMatch == InitMatch /\ [][NextMatch]_vars

\* the lower-cased executable name of window w
ExeNameLower(w) == IF w % 2 = 1 THEN <<"a", "b">> ELSE <<"b", "a">>

\* the three rules, stated on the window's class, title and executable name
ClassRuleHit(w) ==
    \E i \in DOMAIN opt.blacklisted_classes : opt.blacklisted_classes[i] = WinClass(w)
TitleRuleHit(w) ==
    \E i \in DOMAIN opt.blacklisted_titles :
        LET v == opt.blacklisted_titles[i]
        IN \E k \in 1..Len(WinTitle(w)) :
              /\ k + Len(v) - 1 <= Len(WinTitle(w))
              /\ SubSeq(WinTitle(w), k, k + Len(v) - 1) = v
ExeRuleHit(w) ==
    \E i \in DOMAIN opt.blacklisted_filenames : opt.blacklisted_filenames[i] = ExeNameLower(w)

\* the non-empty rule sets in their fixed order, up to the first that matches
RuleOrder(w) ==
    LET c == IF opt.blacklisted_classes # <<>> THEN <<"class">> ELSE <<>>
        t == IF opt.blacklisted_titles # <<>> THEN <<"title">> ELSE <<>>
        f == IF opt.blacklisted_filenames # <<>> THEN <<"exename">> ELSE <<>>
    IN  IF ClassRuleHit(w) THEN c ELSE IF TitleRuleHit(w) THEN c \o t ELSE c \o t \o f

\* C20: a call for a cached window with at most CACHE_HIT_MAX hits returns
\* the cached answer, adds one to the hits and looks at no rule; any other
\* call returns class rule or title rule or executable-name rule, looked at
\* in that order up to the first match, stores the answer for the window and
\* leaves the hits as they are, or at 0 when it cleared the cache.
C20_BlacklistAnswer ==
    [][ (pc = "enum" /\ BeforeBlacklist(ei)) =>
          IF cache_hits <= CACHE_HIT_MAX /\ ei \in DOMAIN blacklist_cache
          THEN /\ pass'.answers[ei] = blacklist_cache[ei]
               /\ cache_hits' = cache_hits + 1
               /\ blfx'.evaluated = <<>>
               /\ blacklist_cache' = blacklist_cache
          ELSE LET answer == ClassRuleHit(ei) \/ TitleRuleHit(ei) \/ ExeRuleHit(ei)
                   kept == IF cache_hits > CACHE_HIT_MAX THEN {} ELSE DOMAIN blacklist_cache
               IN /\ pass'.answers[ei] = answer
                  /\ blfx'.evaluated = RuleOrder(ei)
                  /\ DOMAIN blacklist_cache' = kept \cup {ei}
                  /\ blacklist_cache'[ei] = answer
                  /\ \A w \in kept \ {ei} : blacklist_cache'[w] = blacklist_cache[w]
                  /\ cache_hits' = IF cache_hits > CACHE_HIT_MAX THEN 0 ELSE cache_hits ]_vars

\* window 1 matched no class and no title rule and was blacklisted by its
\* executable name, lower-cased; its answer is cached
C20_Witness ==
    /\ pc \in {"enum", "peek"}
    /\ blfx.evaluated = <<"class", "title", "exename">>
    /\ 1 \in DOMAIN pass.answers /\ pass.answers[1]
    /\ 1 \in DOMAIN blacklist_cache /\ blacklist_cache[1]
    /\ WinFile(1) = <<"A", "b">>


(***************************************************************************)
(* SpecShutdown: a shutdown request reaches the loop.  WM_CLOSE and the    *)
(* tray's two exit entries are posted to the queue while the thread        *)
(* sleeps; NEW_TTB_INSTANCE is sent by the new instance and handled inside *)
(* PeekMessage.  A taskbar on each monitor, or one on MonB alone; window 1 *)
(* is maximised and restored.  The main thread keeps running: each of its  *)
(* steps is taken when it stays possible.                                  *)
(***************************************************************************)
PostedShutdowns == {"WM_CLOSE", "IDM_EXITWITHOUTSAVING", "IDM_EXIT"}

\* the exit reason each shutdown request records (lines 648, 664, 694, 699)
ReasonOf(m) ==
    CASE m = "NEW_TTB_INSTANCE" -> "NewInstance"
      [] m = "IDM_EXITWITHOUTSAVING" -> "UserActionNoSave"
      [] OTHER -> "UserAction"

InitShutdown ==
    InitWith(CacheCfgs, {NoRules}, EngineShells, [Windows -> {Restored}],
             {[visible |-> FALSE, monitor |-> "MonA"]}, {NoMon}, {TRUE}, {TRUE})

NextShutdown ==
    \/ MainThread
    \/ \E st \in AccentWinStates : ChangeWindow(1, st)
    \/ \E m \in PostedShutdowns : Post(m)
    \/ SentMessage("NEW_TTB_INSTANCE")

SpecShutdown == InitShutdown /\ [][NextShutdown]_vars /\ WF_vars(MainThread)

\* the loop thread is inside SetTaskbarBlur or at the sleep that follows it
InTick == pc \in {"blur", "enum", "peek", "start", "apply", "sleep"}

\* C21: once a dispatched shutdown request has cleared run.is_running, the
\* pass of the iteration in flight runs to its sleep without ending the
\* process, the loop test that follows leaves the loop, the steps after the
\* loop run and end the program, and from the end of the message retrieval
\* on the exit reason stays the one the request recorded.
C21_ShutdownCompletes ==
    /\ [][ /\ (pc = "pump" /\ msgq # <<>> /\ pc' = "blur") =>
                (~is_running' /\ exit_reason' = ReasonOf(Head(msgq)))
           /\ (~is_running /\ InTick) =>
                (pc' \in {"blur", "enum", "peek", "start", "apply", "sleep", "loop"}
                   /\ ~is_running' /\ exit_reason' = exit_reason)
           /\ (~is_running /\ pc = "loop") => (pc' = "exit" /\ exit_reason' = exit_reason)
           /\ pc = "exit" => (pc' = "terminated" /\ exit_reason' = exit_reason) ]_vars
    /\ (~is_running) ~> (pc = "terminated")


(***************************************************************************)
(* SpecQueue: messages are posted to the thread's queue while it sleeps: a *)
(* display change, the tray's "clear blacklist cache" entry, WM_CLOSE.     *)
(* A taskbar on each monitor; every window is maximised or restored.       *)
(***************************************************************************)
QueueMessages == {"WM_DISPLAYCHANGE", "IDM_CLEARBLACKLISTCACHE", "WM_CLOSE"}

InitQueue ==
    InitWith(CacheCfgs, {NoRules}, {ShellLayout(1, TRUE, "MonA", TRUE)},
             [Windows -> CacheWinStates], {[visible |-> FALSE, monitor |-> "MonA"]},
             {NoMon}, {TRUE}, {TRUE})

NextQueue ==
    \/ MainThread
    \/ \E w \in Windows, st \in CacheWinStates : ChangeWindow(w, st)
    \/ \E m \in QueueMessages : Post(m)

SpecQueue == InitQueue /\ [][NextQueue]_vars

\* C22: the message retrieval of an iteration takes the first message off
\* the queue when there is one, so that no message is dispatched again and
\* the messages behind it come to the front; with an empty queue it calls no
\* callback.
C22_DispatchedOnce ==
    [][ (pc = "pump" /\ pc' = "blur") =>
          IF msgq = <<>>
          THEN msgq' = <<>> /\ UNCHANGED cbVars
          ELSE msgq' = Tail(msgq) ]_vars


(***************************************************************************)
(* SpecCadence: the dynamic accent and the cadence of the full pass.       *)
(* DYNAMIC_WS is on, the Start menu stays closed and Aero Peek is not      *)
(* used.  The shell has a taskbar on each monitor or one on MonB alone and *)
(* changes between the two; WM_DISPLAYCHANGE reaches the message window at *)
(* any tick, also between two full passes; every window is maximised on    *)
(* either monitor, or restored.                                            *)
(***************************************************************************)
InitCadence ==
    InitWith(CacheCfgs, {NoRules}, EngineShells, [Windows -> WinStatesFew],
             {[visible |-> FALSE, monitor |-> "MonA"]}, {NoMon}, {TRUE}, {TRUE})

NextCadence ==
    \/ Loop
    \/ \E w \in Windows, st \in WinStatesFew : ChangeWindow(w, st)
    \/ \E sh \in EngineShells : ChangeShell(sh)
    \/ SentMessage("WM_DISPLAYCHANGE")

SpecCadence == InitCadence /\ [][NextCadence]_vars

\* a window that passes the four tests of line 474 and no blacklist rule is
\* on monitor m
TriggerOn(m) ==
    \E w \in Windows :
        /\ wins[w].visible /\ wins[w].maximized /\ ~wins[w].cloaked
        /\ wins[w].on_current_desktop /\ ~MatchesRules(w)
        /\ wins[w].monitor = m

\* the monitors with a registered taskbar and a trigger window
TriggeredTaskbars == {m \in DOMAIN taskbars : TriggerOn(m)}

\* C23: with DYNAMIC_WS on, the Start menu not shown and the peek override
\* not in force, while a trigger window is on a monitor with a registered
\* taskbar: a full pass comes at the latest nine ticks after the last one,
\* whatever the registry rebuilds in between; the full pass runs to its
\* applier; its applier asks for the dynamic accent for that taskbar; and the
\* applier of a tick before it asks for the normal accent unless the taskbar
\* already is in WindowMaximised.
C23_DynamicWithinTenTicks ==
    [][ (cfg.DYNAMIC_WS /\ ~StartOpen /\ ~PeekOverride /\ TriggeredTaskbars # {}) =>
          /\ pc = "blur" => (pass'.full <=> pass.sinceFull \in {-1, 9})
          /\ pc \in {"enum", "peek", "start"} => pc' # "aborted"
          /\ pc = "apply" =>
                \A m \in TriggeredTaskbars :
                    fx'.requested[taskbars[m].hwnd] =
                        IF pass.full \/ taskbars[m].state = "WindowMaximised"
                        THEN [appearance |-> cfg.DYNAMIC_APPEARANCE,
                              color |-> cfg.DYNAMIC_COLOR]
                        ELSE [appearance |-> cfg.TASKBAR_APPEARANCE,
                              color |-> cfg.TASKBAR_COLOR] ]_vars

====
